---- MODULE Spec2Model ----
(***************************************************************************)
(* Model of src/modules/ytdl/index.ts: the TikTok downloader session       *)
(* (main / processUrl / downloadVideo / downloadImages) with its fetcher,  *)
(* file system and session ledger (downloadStats).                         *)
(*                                                                         *)
(* One action is one synchronous stretch of the code between two awaits:   *)
(* it consumes the answer of the awaited prompt or request and runs the    *)
(* code up to the next await (issuing the next request) or to the return.  *)
(***************************************************************************)
EXTENDS Integers, Sequences, FiniteSets, TLC

VARIABLES
  pc,            \* where main() is suspended
  url,           \* argument of the current processUrl invocation (token sequence)
  html,          \* processUrl's html: the answer of the page fetch
  apiData,       \* processUrl's apiData / photoData: the answer of the backup API
  videoData,     \* processUrl's videoData / downloadVideo's parameter
  method,        \* processUrl's method label
  photo,         \* downloadImages' parameters
  i,             \* downloadImages' loop index (0-based)
  successCount,  \* downloadImages' successCount
  downloadStats, \* the session ledger
  disk,          \* paths of the files on disk
  inflight,      \* the requests the fetcher is performing
  spinner,       \* final state of the spinner of the current invocation
  caught,        \* message of the error caught by processUrl's outer catch
  events,        \* fetches, resolutions, writes and retrieval errors of the
                 \* current invocation, in order
  statsAtStart,  \* Len(downloadStats) when the current invocation started
  invocations,   \* number of processUrl invocations started
  tzOffset,      \* offset of the process's local time zone from UTC, seconds
  summary,       \* rows printed by showSummary
  exitCode,      \* argument of process.exit, NotExited before
  photoFailures, \* the records downloadImages' catch appended, each with the
                 \* successCount it was appended at
  ytPc,          \* where the caller of YouTubeService.getVideoInfo is suspended
  ytRequests,    \* ytdl.getInfo requests made by the current getVideoInfo call
  ytLog          \* the settled getVideoInfo calls: inputs and outcome

ytVars == <<ytPc, ytRequests, ytLog>>

vars == <<pc, url, html, apiData, videoData, method, photo, i, successCount, downloadStats,
          disk, inflight, spinner, caught, events, statsAtStart, invocations,
          tzOffset, summary, exitCode, photoFailures, ytPc, ytRequests, ytLog>>

----------------------------------------------------------------------------
(* Bounds *)

MaxInvocations == 2
MaxImages == 3
MaxCalls == 2

----------------------------------------------------------------------------
(* JavaScript values *)

\* undefined, as a string value: a template literal prints it as "undefined"
Undef == "undefined"
\* undefined / NaN where a number is expected
UndefTime == 0 - 1

Falsy(s) == s = Undef \/ s = ""

\* a || b on strings
OrElse(a, b) == IF Falsy(a) THEN b ELSE a

VIDEO_DIR == "./tiktok-videos"
IMAGE_DIR == "./tiktok-images"

PathJoin(dir, name) == dir \o "/" \o name

----------------------------------------------------------------------------
(* formatUploadDate: local calendar date of timestamp (seconds), DDMMYYYY *)

PadStart2(n) == IF n < 10 THEN "0" \o ToString(n) ELSE ToString(n)

\* civil date of the day number z - 719468 since 1970-01-01
CivilFromDays(days) ==
  LET z   == days + 719468
      era == z \div 146097
      doe == z - era * 146097
      yoe == (doe - (doe \div 1460) + (doe \div 36524) - (doe \div 146096)) \div 365
      doy == doe - (365 * yoe + (yoe \div 4) - (yoe \div 100))
      mp  == (5 * doy + 2) \div 153
      d   == doy - ((153 * mp + 2) \div 5) + 1
      m   == IF mp < 10 THEN mp + 3 ELSE mp - 9
      y   == yoe + era * 400 + (IF m <= 2 THEN 1 ELSE 0)
  IN  [date |-> d, month |-> m, fullYear |-> y]

formatUploadDate(timestamp, tz) ==
  IF timestamp = UndefTime
  THEN "NaN" \o "NaN" \o "NaN"
  ELSE LET createdDate == CivilFromDays((timestamp + tz) \div 86400)
       IN  PadStart2(createdDate.date) \o PadStart2(createdDate.month)
             \o ToString(createdDate.fullYear)

----------------------------------------------------------------------------
(* validateURL and the photo test of processUrl, on URLs as token sequences *)

Schemes == {"http", "https"}
Subdomains == {"www.", "vm.", "vt."}

\* TIKTOK_URL_REGEX = ^https?:\/\/(www\.|vm\.|vt\.)?(tiktok\.com)\/?(.*)$
\* ('.' does not match a line break)
RestMatches(u, from) == \A k \in from..Len(u) : u[k] # "\n"

TIKTOK_URL_REGEX(u) ==
  /\ Len(u) >= 3
  /\ u[1] \in Schemes
  /\ u[2] = "://"
  /\ \/ u[3] = "tiktok.com" /\ RestMatches(u, 4)
     \/ /\ Len(u) >= 4
        /\ u[3] \in Subdomains
        /\ u[4] = "tiktok.com"
        /\ RestMatches(u, 5)

\* mutant of validateURL: only the emptiness test is left
validateURLNonEmpty(u) == u # << >>

validateURL(u) ==
  IF u = << >> THEN FALSE ELSE TIKTOK_URL_REGEX(u)

\* mutant of IncludesPhoto: looks for "/photos/"
IncludesPhotos(u) ==
  \E k \in 1..Len(u) :
     k + 2 <= Len(u) /\ u[k] = "/" /\ u[k+1] = "photos" /\ u[k+2] = "/"

\* url.includes("/photo/")
IncludesPhoto(u) ==
  \E k \in 1..Len(u) :
     k + 2 <= Len(u) /\ u[k] = "/" /\ u[k+1] = "photo" /\ u[k+2] = "/"

----------------------------------------------------------------------------
(* Inputs: what the prompt source, the fetcher and the file system answer *)

\* answers.url.trim(), as token sequences
Urls ==
  { << >>,
    <<"https", "://", "example.com", "/", "video", "/", "1">>,
    <<"ftp", "://", "www.", "tiktok.com", "/", "@u", "/", "photo", "/", "1">>,
    <<"https", "://", "vt.", "tiktok.com", "/", "ABCDEF", "/">>,
    <<"http", "://", "tiktok.com", "/", "@u", "/", "video", "/", "123">>,
    <<"https", "://", "www.", "tiktok.com", "/", "@u", "/", "photo", "/", "1">> }

\* createTime of 5 March 2024, 01:00:00 UTC (day 19787 of the epoch)
March5 == 19787 * 86400 + 3600

TzOffsets == {0 - 18000, 0, 25200}

FetchErrors == {"Request failed with status code 403"}
WriteErrors == {"ENOSPC: no space left on device, write"}

\* Answer of the page fetch and what cheerio / JSON.parse find in it.
\*   ok: the request resolved; element: #__UNIVERSAL_DATA_FOR_REHYDRATION__
\*   is present; text: its first child has non-empty data; parses: JSON.parse
\*   succeeds; detail: __DEFAULT_SCOPE__["webapp.video-detail"] is present;
\*   bitrateUrl: video.bitrateInfo[0].PlayAddr.UrlList[0], Undef when absent.
FullPage ==
  [ok |-> TRUE, message |-> "", element |-> TRUE, text |-> TRUE, parses |-> TRUE,
   detail |-> TRUE, itemStruct |-> TRUE, author |-> TRUE, uniqueId |-> "ab",
   video |-> TRUE, playAddr |-> "https://v/play", bitrateUrl |-> Undef,
   id |-> "123", createTime |-> March5, desc |-> "clip"]

HtmlResponses ==
  { [FullPage EXCEPT !.ok = FALSE, !.message = m] : m \in FetchErrors }
  \cup
  { FullPage,
    [FullPage EXCEPT !.bitrateUrl = "https://v/hd"],
    [FullPage EXCEPT !.element = FALSE],
    [FullPage EXCEPT !.text = FALSE],
    [FullPage EXCEPT !.parses = FALSE],
    [FullPage EXCEPT !.detail = FALSE],
    [FullPage EXCEPT !.itemStruct = FALSE],
    [FullPage EXCEPT !.author = FALSE],
    [FullPage EXCEPT !.video = FALSE],
    [FullPage EXCEPT !.uniqueId = Undef],
    [FullPage EXCEPT !.id = Undef],
    [FullPage EXCEPT !.createTime = UndefTime],
    [FullPage EXCEPT !.playAddr = Undef] }

ImageUrl(k) == "https://i/" \o ToString(k)

ImageLists == { [k \in 1..n |-> ImageUrl(k)] : n \in 0..MaxImages }

\* Answer of the backup API: response.data and its result.
\*   result / author / video / hasPlayAddr / hasImages: the field is present.
FullVideoResult ==
  [ok |-> TRUE, message |-> "", status |-> "success", result |-> TRUE,
   type |-> "video", id |-> "123", createTime |-> March5,
   author |-> TRUE, username |-> "ab",
   video |-> TRUE, hasPlayAddr |-> TRUE, playAddr |-> <<"https://v/api">>,
   hasImages |-> FALSE, images |-> << >>]

FullImageResult ==
  [FullVideoResult EXCEPT !.type = "image", !.id = "77", !.video = FALSE,
     !.hasPlayAddr = FALSE, !.playAddr = << >>, !.hasImages = TRUE,
     !.images = [k \in 1..MaxImages |-> ImageUrl(k)]]

Variants(full) ==
  { full,
    [full EXCEPT !.status = "error"],
    [full EXCEPT !.result = FALSE],
    [full EXCEPT !.author = FALSE],
    [full EXCEPT !.username = Undef],
    [full EXCEPT !.id = Undef] }

ApiResponses ==
  { [FullVideoResult EXCEPT !.ok = FALSE, !.message = m] : m \in FetchErrors }
  \cup Variants(FullVideoResult)
  \cup Variants(FullImageResult)
  \cup { [FullVideoResult EXCEPT !.playAddr = << >>],
         [FullVideoResult EXCEPT !.hasPlayAddr = FALSE, !.playAddr = << >>],
         [FullVideoResult EXCEPT !.video = FALSE, !.hasPlayAddr = FALSE,
                                 !.playAddr = << >>] }
  \cup { [FullImageResult EXCEPT !.images = l] : l \in ImageLists }
  \cup { [FullImageResult EXCEPT !.hasImages = FALSE, !.images = << >>] }

\* outcome of one media fetch or of one writeFileSync: "" when it succeeds,
\* the message of the error it throws otherwise
FetchOutcomes == {""} \cup FetchErrors
WriteOutcomes == {""} \cup WriteErrors

----------------------------------------------------------------------------
(* Values of the program *)

NoVideoData ==
  [set |-> FALSE, authorUniqueId |-> Undef, videoId |-> Undef,
   createTime |-> UndefTime, videoUrl |-> Undef]

NoPhoto ==
  [set |-> FALSE, imageId |-> Undef, imageUrls |-> << >>,
   timestamp |-> UndefTime, authorId |-> Undef]

\* html and apiData before the request settled
NoPage == [FullPage EXCEPT !.ok = FALSE, !.message = ""]
NoApiData == [FullVideoResult EXCEPT !.ok = FALSE, !.message = ""]

\* no request is in flight
NoRequest == {}
NoError == ""
NotExited == 0 - 1

\* extractVideoDataFromJson: the VideoData, NoVideoData for null
extractVideoDataFromJson(page) ==
  IF ~page.parses THEN NoVideoData
  ELSE IF ~page.detail THEN NoVideoData
  ELSE IF ~page.itemStruct THEN NoVideoData
  ELSE IF ~page.author \/ ~page.video THEN NoVideoData
  ELSE [set |-> TRUE,
        authorUniqueId |-> page.uniqueId,
        videoId |-> page.id,
        createTime |-> page.createTime,
        videoUrl |-> IF page.bitrateUrl # Undef THEN page.bitrateUrl
                     ELSE page.playAddr]

\* processUrl's markup attempt: handleHtml, cheerio lookup, extraction, with
\* every error swallowed by the inner catch
MarkupVideoData(page) ==
  IF ~page.ok THEN NoVideoData
  ELSE IF ~page.element THEN NoVideoData
  ELSE IF ~page.text THEN NoVideoData
  ELSE extractVideoDataFromJson(page)

\* mutant of getMediaInfoFromAPI: the status of the answer is not tested
getMediaInfoFromAPIAnyStatus(resp) ==
  IF ~resp.ok THEN [err |-> resp.message] ELSE [err |-> ""]

\* getMediaInfoFromAPI: [err |-> message thrown, NoError when it returns]
getMediaInfoFromAPI(resp) ==
  IF ~resp.ok THEN [err |-> resp.message]
  ELSE IF resp.status # "success" THEN [err |-> "API Error: " \o resp.status]
  ELSE [err |-> NoError]

TypeErrorReading(prop) ==
  "Cannot read properties of undefined (reading '" \o prop \o "')"

\* processUrl's video branch after the API answered: the error thrown, or
\* the videoData built from apiData
ApiVideoData(resp) ==
  IF getMediaInfoFromAPI(resp).err # NoError
  THEN [err |-> getMediaInfoFromAPI(resp).err, data |-> NoVideoData]
  ELSE IF ~resp.result
  THEN [err |-> TypeErrorReading("type"), data |-> NoVideoData]
  ELSE IF resp.type # "video" \/ ~resp.video \/ ~resp.hasPlayAddr
  THEN [err |-> "API failed to retrieve video data", data |-> NoVideoData]
  ELSE IF ~resp.author
  THEN [err |-> TypeErrorReading("username"), data |-> NoVideoData]
  ELSE [err |-> NoError,
        data |-> [set |-> TRUE,
                  authorUniqueId |-> resp.username,
                  videoId |-> resp.id,
                  createTime |-> resp.createTime,
                  videoUrl |-> IF Len(resp.playAddr) > 0 THEN resp.playAddr[1]
                               ELSE Undef]]

\* processUrl's photo branch after the API answered: the error thrown, or
\* the arguments of downloadImages
ApiPhotoData(resp) ==
  IF getMediaInfoFromAPI(resp).err # NoError
  THEN [err |-> getMediaInfoFromAPI(resp).err, data |-> NoPhoto]
  ELSE IF ~resp.result
  THEN [err |-> TypeErrorReading("type"), data |-> NoPhoto]
  ELSE IF resp.type # "image" \/ ~resp.hasImages
  THEN [err |-> "Invalid photo data structure", data |-> NoPhoto]
  ELSE IF ~resp.author
  THEN [err |-> TypeErrorReading("username"), data |-> NoPhoto]
  ELSE [err |-> NoError,
        data |-> [set |-> TRUE, imageId |-> resp.id, imageUrls |-> resp.images,
                  timestamp |-> resp.createTime, authorId |-> resp.username]]

----------------------------------------------------------------------------
(* Records, file names, requests *)

PhotoSuccessStat(imageId, authorId, count) ==
  [type |-> "Photo Slide", id |-> imageId, author |-> authorId,
   status |-> "Success", details |-> ToString(count) \o " Images"]

PhotoFailedStat(imageId, authorId, message) ==
  [type |-> "Photo", id |-> OrElse(imageId, "Unknown"),
   author |-> OrElse(authorId, "Unknown"),
   status |-> "Failed", details |-> message]

VideoSuccessStat(vd) ==
  [type |-> "Video", id |-> vd.videoId, author |-> vd.authorUniqueId,
   status |-> "Success", details |-> "MP4 Saved"]

VideoFailedStat(vd, message) ==
  [type |-> "Video", id |-> OrElse(vd.videoId, "Unknown"),
   author |-> OrElse(vd.authorUniqueId, "Unknown"),
   status |-> "Failed", details |-> message]

\* mutant of ImageFileName: the index is left out of the name
ImageFileNameNoIndex(p, k, tz) ==
  p.authorId \o "_img_" \o formatUploadDate(p.timestamp, tz) \o "_"
    \o p.imageId \o ".jpg"

\* downloadImages' fileName for 0-based index k
ImageFileName(p, k, tz) ==
  p.authorId \o "_img_" \o formatUploadDate(p.timestamp, tz) \o "_"
    \o p.imageId \o "_" \o ToString(k + 1) \o ".jpg"

\* downloadVideo's fileName
VideoFileName(vd, tz) ==
  vd.authorUniqueId \o "_vid_" \o formatUploadDate(vd.createTime, tz) \o "_"
    \o vd.videoId \o ".mp4"

Request(kind, target) == [kind |-> kind, target |-> target]

\* entries of events
Fetch(kind, idx, target) ==
  [op |-> "fetch", kind |-> kind, idx |-> idx, target |-> target]
Write(kind, idx, path) ==
  [op |-> "write", kind |-> kind, idx |-> idx, target |-> path]
\* a strategy ("markup", "api") produced a descriptor
Resolved(strategy) ==
  [op |-> "resolved", kind |-> strategy, idx |-> 0, target |-> ""]
\* the fetch or the write of a retrieval threw
FetchError(kind, idx, message) ==
  [op |-> "fetch-error", kind |-> kind, idx |-> idx, target |-> message]
WriteError(kind, idx, message) ==
  [op |-> "write-error", kind |-> kind, idx |-> idx, target |-> message]
RetrievalError(kind, idx, fetched, wrote) ==
  IF fetched # "" THEN FetchError(kind, idx, fetched)
  ELSE WriteError(kind, idx, wrote)

\* mutants of NeedsBackup: the backup is always / never queried
NeedsBackupAlways(vd) == TRUE
NeedsBackupNever(vd) == FALSE

\* processUrl's test before the backup strategy: if (!videoData)
NeedsBackup(vd) == ~vd.set

\* mutant of ProcessUrlCatch: the error is reported and thrown again, and
\* main's promise rejects
ProcessUrlRethrow(message) ==
  [pc |-> "crashed",
   spinner |-> [state |-> "fail", text |-> "Error: " \o message],
   caught |-> message]

\* processUrl's outer catch: where main resumes, the spinner, the message
ProcessUrlCatch(message) ==
  [pc |-> "confirm",
   spinner |-> [state |-> "fail", text |-> "Error: " \o message],
   caught |-> message]

\* mutant of HasNextImage: the loop stops one image early
HasNextImageOffByOne(k, imageUrls) == k + 1 < Len(imageUrls)

\* downloadImages' loop test for the index reached: is there a next image
HasNextImage(k, imageUrls) == k < Len(imageUrls)

\* mutant of ImageIndexes: every image is requested when the loop starts
ImageIndexesAllAtOnce(k, imageUrls) ==
  IF k = 0 THEN 1..Len(imageUrls) ELSE {}

\* 1-based indexes of the images downloadImages requests when its loop is
\* at 0-based index k: the await keeps it to the one image of this round
ImageIndexes(k, imageUrls) == {k + 1}

ImageRequests(k, imageUrls) ==
  { Request("image", imageUrls[m]) : m \in ImageIndexes(k, imageUrls) }

RECURSIVE FetchesFrom(_, _, _)
FetchesFrom(m, last, imageUrls) ==
  IF m > last THEN << >>
  ELSE <<Fetch("image", m, imageUrls[m])>> \o FetchesFrom(m + 1, last, imageUrls)

\* the entries of events for ImageRequests, in index order
ImageFetches(k, imageUrls) ==
  LET idx == ImageIndexes(k, imageUrls) IN
  IF idx = {} THEN << >>
  ELSE FetchesFrom(CHOOSE m \in idx : \A n \in idx : m <= n,
                   CHOOSE m \in idx : \A n \in idx : m >= n, imageUrls)

\* mutant of Push: a record equal to one already in the ledger is dropped
PushUnique(stats, stat) ==
  IF \E k \in 1..Len(stats) : stats[k] = stat THEN stats ELSE Append(stats, stat)

\* downloadStats.push
Push(stats, stat) == Append(stats, stat)

\* mutant of writeFileSync: an existing file is kept, the data goes to a copy
writeFileSyncNoClobber(files, path) ==
  IF path \in files THEN files \cup {path \o " (1)"} ELSE files \cup {path}

\* the fetcher's requests once req has settled
Settled(requests, req) == requests \ {req}

\* fs.writeFileSync on the set of paths: an existing file is overwritten
writeFileSync(files, path) == files \cup {path}

----------------------------------------------------------------------------
(* The session *)

Init ==
  /\ pc = "prompt"
  /\ url = << >>
  /\ html = NoPage
  /\ apiData = NoApiData
  /\ videoData = NoVideoData
  /\ method = "HTML"
  /\ photo = NoPhoto
  /\ i = 0
  /\ successCount = 0
  /\ downloadStats = << >>
  /\ disk = {}
  /\ inflight = NoRequest
  /\ spinner = [state |-> "idle", text |-> ""]
  /\ caught = NoError
  /\ events = << >>
  /\ statsAtStart = 0
  /\ invocations = 0
  /\ tzOffset \in TzOffsets
  /\ summary = << >>
  /\ exitCode = NotExited
  /\ photoFailures = {}
  /\ ytPc = "idle"
  /\ ytRequests = 0
  /\ ytLog = << >>

\* main: the URL prompt is answered; processUrl(url) runs to its first await
PromptUrl ==
  /\ pc = "prompt"
  /\ invocations < MaxInvocations
  /\ \E u \in Urls :
       /\ url' = u
       /\ IF ~validateURL(u)
          THEN /\ spinner' = [state |-> "fail", text |-> "Invalid TikTok URL format!"]
               /\ pc' = "confirm"
               /\ inflight' = inflight
               /\ events' = << >>
          ELSE IF IncludesPhoto(u)
          THEN /\ spinner' = [state |-> "spin", text |-> "Fetching photo metadata via API..."]
               /\ pc' = "photo_api_wait"
               /\ inflight' = inflight \cup {Request("api", "api")}
               /\ events' = <<Fetch("api", 0, "api")>>
          ELSE /\ spinner' = [state |-> "spin", text |-> "Attempting direct HTML extraction..."]
               /\ pc' = "html_wait"
               /\ inflight' = inflight \cup {Request("html", "page")}
               /\ events' = <<Fetch("html", 0, "page")>>
  /\ invocations' = invocations + 1
  /\ statsAtStart' = Len(downloadStats)
  /\ caught' = NoError
  /\ html' = NoPage
  /\ apiData' = NoApiData
  /\ videoData' = NoVideoData
  /\ method' = "HTML"
  /\ photo' = NoPhoto
  /\ i' = 0
  /\ successCount' = 0
  /\ UNCHANGED <<downloadStats, disk, tzOffset, summary, exitCode>>
  /\ UNCHANGED <<photoFailures, ytVars>>

\* processUrl: the page fetch settles; markup extraction, then either
\* downloadVideo's fetch or the backup-API request is issued
HtmlResponse ==
  /\ pc = "html_wait"
  /\ \E page \in HtmlResponses :
       LET vd   == MarkupVideoData(page)
           seen == IF vd.set THEN Append(events, Resolved("markup")) ELSE events
       IN
       /\ html' = page
       /\ videoData' = vd
       /\ IF ~NeedsBackup(vd)
          THEN /\ method' = "HTML"
               /\ pc' = "video_wait"
               /\ inflight' = Settled(inflight, Request("html", "page"))
                               \cup {Request("video", vd.videoUrl)}
               /\ events' = Append(seen, Fetch("video", 0, vd.videoUrl))
               /\ spinner' = [state |-> "spin", text |-> "Downloading video (HTML)..."]
          ELSE /\ method' = "API"
               /\ pc' = "video_api_wait"
               /\ inflight' = Settled(inflight, Request("html", "page"))
                               \cup {Request("api", "api")}
               /\ events' = Append(seen, Fetch("api", 0, "api"))
               /\ spinner' = [state |-> "spin",
                              text |-> "HTML extraction failed. Switching to API backup..."]
  /\ UNCHANGED <<url, apiData, photo, i, successCount, downloadStats, disk, caught,
                 statsAtStart, invocations, tzOffset, summary, exitCode>>
  /\ UNCHANGED <<photoFailures, ytVars>>

\* processUrl: the backup API settles for a video URL
VideoApiResponse ==
  /\ pc = "video_api_wait"
  /\ \E resp \in ApiResponses :
       LET r == ApiVideoData(resp) IN
       /\ apiData' = resp
       /\ IF r.err # NoError
          THEN /\ pc' = ProcessUrlCatch(r.err).pc
               /\ spinner' = ProcessUrlCatch(r.err).spinner
               /\ caught' = ProcessUrlCatch(r.err).caught
               /\ inflight' = Settled(inflight, Request("api", "api"))
               /\ UNCHANGED <<videoData, events>>
          ELSE /\ videoData' = r.data
               /\ pc' = "video_wait"
               /\ inflight' = Settled(inflight, Request("api", "api"))
                               \cup {Request("video", r.data.videoUrl)}
               /\ events' = events \o
                    << Resolved("api"), Fetch("video", 0, r.data.videoUrl) >>
               /\ spinner' = [state |-> "spin", text |-> "Downloading video (API)..."]
               /\ UNCHANGED caught
  /\ UNCHANGED <<url, html, method, photo, i, successCount, downloadStats, disk,
                 statsAtStart, invocations, tzOffset, summary, exitCode>>
  /\ UNCHANGED <<photoFailures, ytVars>>

\* processUrl: the backup API settles for a photo URL; downloadImages is
\* entered and runs to its first image request, or through its empty loop
PhotoApiResponse ==
  /\ pc = "photo_api_wait"
  /\ \E resp \in ApiResponses :
       LET r == ApiPhotoData(resp) IN
       /\ apiData' = resp
       /\ IF r.err # NoError
          THEN /\ pc' = ProcessUrlCatch(r.err).pc
               /\ spinner' = ProcessUrlCatch(r.err).spinner
               /\ caught' = ProcessUrlCatch(r.err).caught
               /\ inflight' = Settled(inflight, Request("api", "api"))
               /\ UNCHANGED <<photo, events, downloadStats>>
          ELSE /\ photo' = r.data
               /\ UNCHANGED caught
               /\ IF HasNextImage(0, r.data.imageUrls)
                  THEN /\ pc' = "img_wait"
                       /\ inflight' = Settled(inflight, Request("api", "api"))
                                          \cup ImageRequests(0, r.data.imageUrls)
                       /\ events' = Append(events, Resolved("api")) \o
                                       ImageFetches(0, r.data.imageUrls)
                       /\ spinner' = [state |-> "spin", text |-> "Downloading Image..."]
                       /\ UNCHANGED downloadStats
                  ELSE /\ downloadStats' =
                            Push(downloadStats,
                                   PhotoSuccessStat(r.data.imageId, r.data.authorId, 0))
                       /\ pc' = "confirm"
                       /\ inflight' = Settled(inflight, Request("api", "api"))
                       /\ spinner' = [state |-> "succeed",
                                      text |-> "Photo slide downloaded successfully!"]
                       /\ events' = Append(events, Resolved("api"))
  /\ i' = 0
  /\ successCount' = 0
  /\ UNCHANGED <<url, html, videoData, method, disk, statsAtStart, invocations,
                 tzOffset, summary, exitCode>>
  /\ UNCHANGED <<photoFailures, ytVars>>

\* downloadImages: the fetch of image i+1 settles; the file is written, and
\* the next image is requested or the set is recorded; a fetch or write error
\* is recorded by downloadImages' catch and caught again by processUrl
ImageResponse ==
  /\ pc = "img_wait"
  /\ \E fetched \in FetchOutcomes, wrote \in WriteOutcomes :
       LET err  == IF fetched # "" THEN fetched ELSE wrote
           path == PathJoin(IMAGE_DIR, ImageFileName(photo, i, tzOffset))
       IN
       IF err # NoError
       THEN /\ downloadStats' =
                 Push(downloadStats,
                        PhotoFailedStat(photo.imageId, photo.authorId, err))
            /\ pc' = ProcessUrlCatch(err).pc
            /\ spinner' = ProcessUrlCatch(err).spinner
            /\ caught' = ProcessUrlCatch(err).caught
            /\ inflight' = Settled(inflight, Request("image", photo.imageUrls[i + 1]))
            /\ events' = Append(events, RetrievalError("image", i + 1, fetched, wrote))
            /\ photoFailures' = photoFailures \cup
                 { << PhotoFailedStat(photo.imageId, photo.authorId, err),
                      successCount >> }
            /\ UNCHANGED <<disk, i, successCount>>
       ELSE /\ disk' = writeFileSync(disk, path)
            /\ successCount' = successCount + 1
            /\ i' = i + 1
            /\ UNCHANGED <<caught, photoFailures>>
            /\ IF HasNextImage(i + 1, photo.imageUrls)
               THEN /\ pc' = "img_wait"
                    /\ inflight' = Settled(inflight, Request("image", photo.imageUrls[i + 1]))
                                     \cup ImageRequests(i + 1, photo.imageUrls)
                    /\ events' = Append(events, Write("image", i + 1, path)) \o
                                   ImageFetches(i + 1, photo.imageUrls)
                    /\ spinner' = [state |-> "spin", text |-> "Downloading Image..."]
                    /\ UNCHANGED downloadStats
               ELSE /\ downloadStats' =
                         Push(downloadStats,
                                PhotoSuccessStat(photo.imageId, photo.authorId,
                                                 successCount + 1))
                    /\ pc' = "confirm"
                    /\ inflight' = Settled(inflight, Request("image", photo.imageUrls[i + 1]))
                    /\ events' = Append(events, Write("image", i + 1, path))
                    /\ spinner' = [state |-> "succeed",
                                   text |-> "Photo slide downloaded successfully!"]
  /\ UNCHANGED <<url, html, apiData, videoData, method, photo, statsAtStart, invocations,
                 tzOffset, summary, exitCode>>
  /\ UNCHANGED ytVars

\* downloadVideo: the playback fetch settles; the file is written and the
\* outcome recorded; an error is recorded by downloadVideo's catch and caught
\* again by processUrl
VideoResponse ==
  /\ pc = "video_wait"
  /\ \E fetched \in FetchOutcomes, wrote \in WriteOutcomes :
       LET err  == IF fetched # "" THEN fetched ELSE wrote
           path == PathJoin(VIDEO_DIR, VideoFileName(videoData, tzOffset))
       IN
       IF err # NoError
       THEN /\ downloadStats' = Push(downloadStats, VideoFailedStat(videoData, err))
            /\ pc' = ProcessUrlCatch(err).pc
            /\ spinner' = ProcessUrlCatch(err).spinner
            /\ caught' = ProcessUrlCatch(err).caught
            /\ events' = Append(events, RetrievalError("video", 0, fetched, wrote))
            /\ UNCHANGED disk
       ELSE /\ disk' = writeFileSync(disk, path)
            /\ events' = Append(events, Write("video", 0, path))
            /\ downloadStats' = Push(downloadStats, VideoSuccessStat(videoData))
            /\ pc' = "confirm"
            /\ spinner' = [state |-> "succeed", text |-> "Video downloaded successfully!"]
            /\ UNCHANGED caught
  /\ inflight' = Settled(inflight, Request("video", videoData.videoUrl))
  /\ UNCHANGED <<url, html, apiData, videoData, method, photo, i, successCount,
                 statsAtStart,
                 invocations, tzOffset, summary, exitCode>>
  /\ UNCHANGED <<photoFailures, ytVars>>

\* main: the user asks for another download
ConfirmAgain ==
  /\ pc = "confirm"
  /\ invocations < MaxInvocations
  /\ pc' = "prompt"
  /\ UNCHANGED <<url, html, apiData, videoData, method, photo, i, successCount,
                 downloadStats,
                 disk, inflight, spinner, caught, events, statsAtStart,
                 invocations, tzOffset, summary, exitCode>>
  /\ UNCHANGED <<photoFailures, ytVars>>

\* showSummary's table rows
showSummary(stats) ==
  [k \in 1..Len(stats) |->
     <<stats[k].type, stats[k].author, stats[k].status, stats[k].details>>]

\* main: the user declines; the summary is shown and the process exits
ConfirmStop ==
  /\ pc = "confirm"
  /\ summary' = showSummary(downloadStats)
  /\ exitCode' = 0
  /\ pc' = "exited"
  /\ UNCHANGED <<url, html, apiData, videoData, method, photo, i, successCount,
                 downloadStats,
                 disk, inflight, spinner, caught, events, statsAtStart,
                 invocations, tzOffset>>
  /\ UNCHANGED <<photoFailures, ytVars>>

Next ==
  \/ PromptUrl
  \/ HtmlResponse
  \/ VideoApiResponse
  \/ PhotoApiResponse
  \/ ImageResponse
  \/ VideoResponse
  \/ ConfirmAgain
  \/ ConfirmStop

Spec == Init /\ [][Next]_vars

----------------------------------------------------------------------------
(* YouTubeService.getVideoInfo *)

\* what ytdl.validateURL does with the url: returns true, returns false, throws
UrlChecks == {"true", "false", "throws"}

\* how ytdl.getInfo settles: it rejects with an Error (ok = FALSE, message
\* possibly empty) or resolves with an info whose videoDetails may be missing
GetInfoOutcomes ==
  { [ok |-> FALSE, message |-> m, details |-> FALSE, isPrivate |-> FALSE,
     age_restricted |-> FALSE] : m \in {"Status code: 410", ""} }
  \cup
  { [ok |-> TRUE, message |-> "", details |-> FALSE, isPrivate |-> FALSE,
     age_restricted |-> FALSE] }
  \cup
  { [ok |-> TRUE, message |-> "", details |-> TRUE, isPrivate |-> p,
     age_restricted |-> a] : p \in BOOLEAN, a \in BOOLEAN }

NoOutcome ==
  [ok |-> FALSE, message |-> "not requested", details |-> FALSE,
   isPrivate |-> FALSE, age_restricted |-> FALSE]

VideoDownloadError(message, code) ==
  [name |-> "VideoDownloadError", message |-> message, code |-> code]

Error(name, message) == [name |-> name, message |-> message, code |-> Undef]

NoThrow == Error("", "")

\* YouTubeService.validateUrl
validateUrl(check) == check = "true"

\* the try block of getVideoInfo once ytdl.getInfo has settled: the error
\* thrown inside it, NoThrow when it reaches return info
GetInfoTry(outcome) ==
  IF ~outcome.ok THEN Error("Error", outcome.message)
  ELSE IF ~outcome.details THEN Error("TypeError", TypeErrorReading("isPrivate"))
  ELSE IF outcome.isPrivate THEN VideoDownloadError("Video is private", "VIDEO_PRIVATE")
  ELSE NoThrow

\* mutant of GetInfoCatch: every error is wrapped
GetInfoCatchWrapAll(error) ==
  VideoDownloadError(OrElse(error.message, "Failed to fetch video metadata"),
                     "METADATA_FETCH_FAILED")

\* the catch block of getVideoInfo: the error it throws
GetInfoCatch(error) ==
  IF error.name = "VideoDownloadError" THEN error
  ELSE VideoDownloadError(OrElse(error.message, "Failed to fetch video metadata"),
                          "METADATA_FETCH_FAILED")

\* an entry of ytLog
Settlement(check, requests, outcome, error) ==
  [check |-> check, requests |-> requests, outcome |-> outcome,
   rejected |-> error # NoThrow, error |-> error]

\* getVideoInfo(url) is called: an invalid url rejects at once, a valid one
\* starts the metadata request
GetVideoInfo ==
  /\ ytPc = "idle"
  /\ Len(ytLog) < MaxCalls
  /\ \E check \in UrlChecks :
       IF ~validateUrl(check)
       THEN /\ ytLog' = Append(ytLog,
                   Settlement(check, 0, NoOutcome,
                      VideoDownloadError("Invalid YouTube URL provided", "INVALID_URL")))
            /\ ytRequests' = 0
            /\ ytPc' = "idle"
       ELSE /\ ytRequests' = 1
            /\ ytPc' = "info_wait"
            /\ UNCHANGED ytLog
  /\ UNCHANGED <<pc, url, html, apiData, videoData, method, photo, i, successCount,
                 downloadStats, disk, inflight, spinner, caught, events,
                 statsAtStart, invocations, tzOffset, summary, exitCode,
                 photoFailures>>

\* ytdl.getInfo settles: getVideoInfo returns the info or rejects
GetInfoSettles ==
  /\ ytPc = "info_wait"
  /\ \E outcome \in GetInfoOutcomes :
       LET thrown == GetInfoTry(outcome) IN
       ytLog' = Append(ytLog,
                  Settlement("true", ytRequests, outcome,
                     IF thrown = NoThrow THEN NoThrow ELSE GetInfoCatch(thrown)))
  /\ ytPc' = "idle"
  /\ UNCHANGED ytRequests
  /\ UNCHANGED <<pc, url, html, apiData, videoData, method, photo, i, successCount,
                 downloadStats, disk, inflight, spinner, caught, events,
                 statsAtStart, invocations, tzOffset, summary, exitCode,
                 photoFailures>>

NextYT ==
  \/ GetVideoInfo
  \/ GetInfoSettles

SpecYT == Init /\ [][NextYT]_vars

----------------------------------------------------------------------------
(* Vocabulary of the properties *)

\* the path of u has a "photo" segment
HasPhotoSegment(u) ==
  \E k \in 1..Len(u) : k + 2 <= Len(u) /\ SubSeq(u, k, k + 2) = <<"/", "photo", "/">>

\* a processUrl invocation on a video URL / on a photo-set URL has started
VideoRun == invocations > 0 /\ validateURL(url) /\ ~HasPhotoSegment(url)
PhotoRun == invocations > 0 /\ validateURL(url) /\ HasPhotoSegment(url)

\* the current invocation has returned to main
Returned == pc = "confirm"

\* main is running or done: no invocation is suspended, none has thrown
InMain == pc \in {"prompt", "confirm", "exited"}

\* positions in events
EventsOf(op, kind) ==
  { k \in 1..Len(events) : events[k].op = op /\ events[k].kind = kind }

\* records appended by the current invocation
NewStats == SubSeq(downloadStats, statsAtStart + 1, Len(downloadStats))

\* the page has a rehydration payload that lacks a required field
LacksRequiredField(page) ==
  \/ ~page.detail \/ ~page.itemStruct
  \/ ~page.author \/ page.uniqueId = Undef
  \/ page.id = Undef
  \/ page.createTime = UndefTime
  \/ ~page.video \/ (page.playAddr = Undef /\ page.bitrateUrl = Undef)

----------------------------------------------------------------------------
(* C1 *)

\* C1: when a processUrl invocation has returned, whatever its outcome,
\* exactly one record was appended to downloadStats since it started.
C1_ExactlyOneRecord ==
  Returned => Len(downloadStats) = statsAtStart + 1

(* C2 *)

\* C2: when processUrl has caught an error, the invocation appended one
\* record, with status Failed and the error's message as details.
C2_ErrorBecomesFailedRecord ==
  (Returned /\ caught # NoError) =>
     /\ Len(NewStats) = 1
     /\ NewStats[1].status = "Failed"
     /\ NewStats[1].details = caught

(* C3 *)

\* C3: in an invocation on a video URL every backup-API request comes after
\* the page fetch, and once the markup strategy has produced a descriptor
\* the invocation makes no backup-API request.
C3_MarkupBeforeBackup ==
  VideoRun =>
     /\ \A k \in EventsOf("fetch", "api") :
           \E j \in EventsOf("fetch", "html") : j < k
     /\ EventsOf("resolved", "markup") # {} => EventsOf("fetch", "api") = {}

C3_Witness ==
  /\ VideoRun
  /\ Returned
  /\ EventsOf("resolved", "markup") # {}
  /\ EventsOf("write", "video") # {}

(* C4 *)

\* C4: when the page of a video URL has no rehydration element, no payload,
\* an unparsable payload or a payload lacking a required field, the markup
\* strategy produces no descriptor and the backup API is queried.
C4_MissingFieldFallsThrough ==
  (VideoRun /\ html.ok
     /\ (~html.element \/ ~html.text \/ ~html.parses \/ LacksRequiredField(html))) =>
     /\ EventsOf("resolved", "markup") = {}
     /\ EventsOf("fetch", "api") # {}

(* C5 *)

\* C5: when the page fetch of a video URL fails or the page has no
\* rehydration element, the next request is the backup API's; and if the API
\* resolves the video and its file is written, the invocation returns with
\* exactly one new record, a Success of type Video.
PageUnavailable == (~html.ok /\ html.message # "") \/ (html.ok /\ ~html.element)

C5_FallbackToBackup ==
  (VideoRun /\ PageUnavailable) =>
     /\ Len(events) >= 2
     /\ events[1] = Fetch("html", 0, "page")
     /\ events[2] = Fetch("api", 0, "api")
     /\ (Returned /\ EventsOf("resolved", "api") # {}
           /\ EventsOf("write", "video") # {}) =>
          /\ Len(NewStats) = 1
          /\ NewStats[1].status = "Success"
          /\ NewStats[1].type = "Video"

C5_Witness ==
  /\ VideoRun
  /\ html.ok /\ ~html.element
  /\ Returned
  /\ EventsOf("resolved", "api") # {}
  /\ EventsOf("write", "video") # {}
  /\ Len(NewStats) = 1

(* C6 *)

\* C6: an invocation on a photo-set URL requests the backup API exactly once
\* and never fetches the page, whether the API call succeeds or fails.
C6_PhotoSingleStrategy ==
  PhotoRun =>
     /\ EventsOf("fetch", "html") = {}
     /\ Cardinality(EventsOf("fetch", "api")) = 1

C6_Witness ==
  /\ PhotoRun
  /\ Returned
  /\ ~apiData.ok /\ apiData.message # ""
  /\ caught # NoError

(* C7 *)

\* C7: when the backup API answers a video URL with status "success", type
\* "video" and an empty playAddr sequence, no descriptor is produced and no
\* playback fetch or file write is attempted.
EmptyPlayAddrAnswer ==
  /\ apiData.ok /\ apiData.status = "success" /\ apiData.result
  /\ apiData.type = "video" /\ apiData.video /\ apiData.hasPlayAddr
  /\ apiData.playAddr = << >>

C7_EmptyPlayAddrFails ==
  (VideoRun /\ EmptyPlayAddrAnswer) =>
     /\ EventsOf("resolved", "api") = {}
     /\ EventsOf("fetch", "video") = {}
     /\ EventsOf("write", "video") = {}

(* C8 *)

\* C8: a photo set handed to downloadImages has at least one image URL, and
\* a photo-set invocation records Success only for an API payload of type
\* "image" with a non-empty images sequence.
C8_NoEmptyPhotoSet ==
  PhotoRun =>
     /\ photo.set => Len(photo.imageUrls) >= 1
     /\ \A k \in 1..Len(NewStats) :
           NewStats[k].status = "Success" =>
              apiData.type = "image" /\ apiData.hasImages /\ Len(apiData.images) >= 1

(* C9 *)

\* C9: every descriptor handed to downloadVideo or downloadImages has a
\* non-empty author id and a non-empty item or set id.
C9_DescriptorIdsNonEmpty ==
  /\ EventsOf("fetch", "video") # {} =>
        ~Falsy(videoData.authorUniqueId) /\ ~Falsy(videoData.videoId)
  /\ photo.set => ~Falsy(photo.authorId) /\ ~Falsy(photo.imageId)

(* C10 *)

\* C10: when the fetch of the n-th image of a photo set is the first to
\* fail, images 1..n were fetched and no other, n-1 distinct files were
\* written and are on disk, the invocation appended exactly one record, a
\* Failed one, and processUrl returned to main.
C10_PartialPhotoSet ==
  \A k \in EventsOf("fetch-error", "image") :
     LET n       == events[k].idx
         fetches == EventsOf("fetch", "image")
         written == { events[j].target : j \in EventsOf("write", "image") }
     IN  /\ n \in 1..Len(photo.imageUrls)
         /\ { events[j].idx : j \in fetches } = 1..n
         /\ Cardinality(fetches) = n
         /\ { events[j].idx : j \in EventsOf("write", "image") } = 1..(n - 1)
         /\ Cardinality(written) = n - 1
         /\ written \subseteq disk
         /\ Len(NewStats) = 1
         /\ NewStats[1].status = "Failed"
         /\ InMain

C10_Witness ==
  /\ PhotoRun
  /\ Len(photo.imageUrls) = 3
  /\ \E k \in EventsOf("fetch-error", "image") : events[k].idx = 2
  /\ Cardinality(EventsOf("write", "image")) = 1
  /\ Returned

(* C11 *)

\* C11: the record reported for a photo set that failed after some images
\* were saved differs from the record of a set that failed with none saved.
C11_PartialFailureDistinct ==
  \A a \in photoFailures, b \in photoFailures :
     (a[2] = 0 /\ b[2] > 0) => a[1] # b[1]

(* C12 *)

\* C12: at most one request is in flight and none while main is at a
\* prompt; the images of a set are requested in the order of imageUrls, each
\* after the file of the image before it was written.
C12_SequentialFetches ==
  /\ Cardinality(inflight) <= 1
  /\ InMain => inflight = {}
  /\ \A k \in EventsOf("fetch", "image") :
        LET m == events[k].idx IN
        /\ events[k].target = photo.imageUrls[m]
        /\ \A j \in EventsOf("fetch", "image") : j < k => events[j].idx < m
        /\ m > 1 => \E j \in EventsOf("write", "image") :
                       j < k /\ events[j].idx = m - 1

C12_Witness ==
  /\ pc = "img_wait"
  /\ i = 2
  /\ inflight = {Request("image", photo.imageUrls[3])}
  /\ Cardinality(EventsOf("write", "image")) = 2

(* C13 *)

\* C13: once the backup API has failed for a video URL (transport failure,
\* status other than "success", or a type other than "video"), the
\* invocation makes no further request, resolves nothing, writes no file
\* and has returned.
BackupFailed ==
  \/ ~apiData.ok /\ apiData.message # ""
  \/ apiData.ok /\ apiData.status # "success"
  \/ apiData.ok /\ apiData.status = "success" /\ apiData.result
       /\ apiData.type # "video"

C13_BackupFailureTerminal ==
  (VideoRun /\ BackupFailed) =>
     /\ EventsOf("resolved", "api") = {}
     /\ EventsOf("fetch", "video") = {}
     /\ EventsOf("write", "video") = {}
     /\ Cardinality(EventsOf("fetch", "html")) = 1
     /\ Cardinality(EventsOf("fetch", "api")) = 1
     /\ events[Len(events)] = Fetch("api", 0, "api")
     /\ InMain

C13_Witness ==
  /\ VideoRun
  /\ apiData.ok /\ apiData.status = "error"
  /\ Returned
  /\ caught = "API Error: error"

(* C14 *)

\* the platform's URL shape: http or https, "://", an optional www., vm. or
\* vt., then tiktok.com and any path
PlatformShape(u) ==
  /\ Len(u) >= 3
  /\ Head(u) \in {"http", "https"}
  /\ Head(Tail(u)) = "://"
  /\ LET rest == Tail(Tail(u)) IN
       \/ Head(rest) = "tiktok.com"
       \/ /\ Head(rest) \in {"www.", "vm.", "vt."}
          /\ Len(rest) >= 2
          /\ Head(Tail(rest)) = "tiktok.com"

\* C14: an invocation on an empty string or a string that has not the
\* platform's URL shape reports an invalid URL and returns without any
\* request or file write.
C14_InvalidUrlNoNetwork ==
  (invocations > 0 /\ ~PlatformShape(url)) =>
     /\ events = << >>
     /\ inflight = {}
     /\ spinner = [state |-> "fail", text |-> "Invalid TikTok URL format!"]
     /\ InMain

C14_Witness ==
  /\ invocations > 0
  /\ url # << >>
  /\ ~PlatformShape(url)
  /\ HasPhotoSegment(url)
  /\ Returned

(* C15 *)

\* C15: an invocation that failed has returned to main, so the continue
\* prompt is reached; once the user has declined, the summary has one row
\* for every record of downloadStats, Success and Failed alike, and the
\* process has exited with code 0.
C15_SessionSurvivesFailures ==
  /\ (caught # NoError \/ spinner.state = "fail") => InMain
  /\ pc = "exited" =>
        /\ exitCode = 0
        /\ Len(summary) = Len(downloadStats)
        /\ \A k \in 1..Len(downloadStats) :
              summary[k] = << downloadStats[k].type, downloadStats[k].author,
                              downloadStats[k].status, downloadStats[k].details >>
  /\ pc # "exited" => exitCode = NotExited

C15_Witness ==
  /\ pc = "exited"
  /\ exitCode = 0
  /\ Len(summary) = 2
  /\ \E k \in 1..2 : downloadStats[k].status = "Failed"
  /\ \E k \in 1..2 : downloadStats[k].status = "Success"

(* C16 *)

\* a retrieval (downloadVideo or downloadImages) ends in this step
RetrievalEnds ==
  /\ pc' = "confirm"
  /\ \/ pc \in {"img_wait", "video_wait"}
     \/ pc = "photo_api_wait" /\ photo'.set

\* C16: no step removes, reorders or changes a record of downloadStats, and
\* every retrieval that ends appends a record, also one equal to a record
\* the ledger already holds.
C16_LedgerAppendOnly ==
  [][ /\ Len(downloadStats') >= Len(downloadStats)
      /\ SubSeq(downloadStats', 1, Len(downloadStats)) = downloadStats
      /\ RetrievalEnds => Len(downloadStats') = Len(downloadStats) + 1 ]_vars

C16_Witness ==
  /\ Len(downloadStats) = 2
  /\ downloadStats[1] = downloadStats[2]
  /\ downloadStats[1].status = "Success"
  /\ downloadStats[1].type = "Video"

(* C17 *)

\* the paths the step writes, as the invocation's events record them
WrittenInStep ==
  { events'[k].target :
      k \in { j \in 1..Len(events') : j > Len(events) /\ events'[j].op = "write" } }

UtcDate(timestamp) == formatUploadDate(timestamp, 0)

\* C18: the file written for a video is named
\* {authorId}_vid_{DDMMYYYY}_{itemId}.mp4 with the UTC date of createTime,
\* whatever the time zone of the process; ab, 123, 5 March 2024 give
\* ab_vid_05032024_123.mp4.
C18_VideoFileNameUtc ==
  \A k \in EventsOf("write", "video") :
     /\ videoData.createTime # UndefTime =>
           events[k].target =
              VIDEO_DIR \o "/" \o videoData.authorUniqueId \o "_vid_"
                \o UtcDate(videoData.createTime) \o "_" \o videoData.videoId \o ".mp4"
     /\ (videoData.authorUniqueId = "ab" /\ videoData.videoId = "123"
           /\ videoData.createTime = March5) =>
           events[k].target = "./tiktok-videos/ab_vid_05032024_123.mp4"

(* C19 *)

\* C19: a Success record appended by the current invocation has its files
\* on disk: a Video record its .mp4, a photo record with details "n Images"
\* the n files of the images 1..n, n the length of imageUrls.
C19_SuccessMeansWritten ==
  \A k \in 1..Len(NewStats) :
     NewStats[k].status = "Success" =>
        IF NewStats[k].type = "Video"
        THEN \E j \in EventsOf("write", "video") :
                /\ events[j].target \in disk
                /\ events[j].target =
                     PathJoin(VIDEO_DIR, VideoFileName(videoData, tzOffset))
        ELSE LET n      == Len(photo.imageUrls)
                 writes == EventsOf("write", "image")
                 files  == { events[j].target : j \in writes }
             IN  /\ NewStats[k].details = ToString(n) \o " Images"
                 /\ { events[j].idx : j \in writes } = 1..n
                 /\ Cardinality(writes) = n
                 /\ Cardinality(files) = n
                 /\ files \subseteq disk

C19_Witness ==
  /\ PhotoRun
  /\ Returned
  /\ Len(NewStats) = 1
  /\ NewStats[1].status = "Success"
  /\ NewStats[1].details = "3 Images"
  /\ Cardinality(EventsOf("write", "image")) = 3

(* C20 *)

\* C20: getVideoInfo rejects only with a VideoDownloadError of code
\* INVALID_URL, VIDEO_PRIVATE or METADATA_FETCH_FAILED: INVALID_URL for an
\* invalid url, with no metadata request made; VIDEO_PRIVATE for a private
\* video; METADATA_FETCH_FAILED for any other failure of the metadata
\* request; a video that is not private, age-restricted or not, is returned.
C20_GetVideoInfoErrors ==
  \A k \in 1..Len(ytLog) :
     LET e == ytLog[k]
         o == ytLog[k].outcome
     IN  /\ e.rejected =>
              /\ e.error.name = "VideoDownloadError"
              /\ e.error.code \in {"INVALID_URL", "VIDEO_PRIVATE", "METADATA_FETCH_FAILED"}
         /\ e.check # "true" =>
              e.rejected /\ e.error.code = "INVALID_URL" /\ e.requests = 0
         /\ (e.check = "true" /\ o.ok /\ o.details /\ o.isPrivate) =>
              e.rejected /\ e.error.code = "VIDEO_PRIVATE"
         /\ (e.check = "true" /\ (~o.ok \/ ~o.details)) =>
              e.rejected /\ e.error.code = "METADATA_FETCH_FAILED"
         /\ (e.check = "true" /\ o.ok /\ o.details /\ ~o.isPrivate) => ~e.rejected

C20_Witness ==
  /\ \E k \in 1..Len(ytLog) :
        ytLog[k].outcome.isPrivate /\ ytLog[k].error.code = "VIDEO_PRIVATE"
  /\ \E k \in 1..Len(ytLog) :
        /\ ytLog[k].outcome.age_restricted /\ ~ytLog[k].outcome.isPrivate
        /\ ~ytLog[k].rejected

====
